---- MODULE Spec2Model ----
(***************************************************************************)
(* Model of update_vectorchord.py: the script that fetches the VectorChord *)
(* releases, lets the operator pick one and pins it in the Spilo           *)
(* Dockerfile through a fixed sequence of git commands.                     *)
(*                                                                         *)
(* Text is a sequence of one-character strings.  In the build file the     *)
(* token "A" stands for the literal text  ARG VECTORCHORD=  , "Q" for the  *)
(* double quote, "N" for the newline; in a version "B" is the backslash.   *)
(***************************************************************************)
EXTENDS Integers, Sequences, FiniteSets, TLC

VARIABLES
    pc,                \* where main() stands: the state it has reached
    exit_code,         \* the process exit status, -1 while it runs
    out,               \* the lines printed by the last step
    git_log,           \* every git command invoked so far, in order
    repo,              \* the repository: head, branches, index, commits, tags, remote
    file0,             \* the Dockerfile's content as update_dockerfile read it
    file,              \* the Dockerfile's content now
    writes,            \* how many times the Dockerfile was opened for writing
    io,                \* what the file system did in update_dockerfile
    response,          \* the HTTP response the fetch is working on
    versions,          \* main's versions
    selected_version,  \* main's selected_version
    choice,            \* what the last input() of select_version gave
    prompts,           \* how many input() calls have returned
    ops,               \* history: the operations run and whether each succeeded
    trace              \* history: the states passed through

vars == <<pc, exit_code, out, git_log, repo, file0, file, writes, io, response,
          versions, selected_version, choice, prompts, ops, trace>>

----------------------------------------------------------------------------
(* Bounds of the model *)

MaxFileLen == 4
MaxVersionLen == 2
MaxPayloadLen == 22
MaxMainPayloadLen == 1
MaxCandidates == 2
MaxInputLen == 2
MaxPrompts == 2
MaxTagLen == 4

(* Program constant: versions[:20] *)
MaxVersions == 20

----------------------------------------------------------------------------
(* Text helpers *)

SeqsUpTo(S, n) == UNION {[1..k -> S] : k \in 0..n}

Take(s, n) == SubSeq(s, 1, IF n < Len(s) THEN n ELSE Len(s))

Drop(s, n) == SubSeq(s, n + 1, Len(s))

None == [isNone |-> TRUE, val |-> <<>>]

Some(v) == [isNone |-> FALSE, val |-> v]

(* Mutant of Truthy: the test is "is not None" *)
Truthy_NotNone(o) == ~o.isNone

(* Python truthiness of an Optional[str] / Optional[List]: None and the   *)
(* empty value are both falsy.                                             *)
Truthy(o) == ~o.isNone /\ o.val # <<>>

(* A printed line: its fixed text and the value formatted into it *)
Msg(text, arg) == [text |-> text, arg |-> arg]

----------------------------------------------------------------------------
(* update_dockerfile: re.sub(r'^ARG VECTORCHORD="[^"]*"', replacement,     *)
(* content, flags=re.MULTILINE)                                            *)

FileAlphabet == {"A", "Q", "N", "1"}

VersionAlphabet == {"1", "n", "B", "Q"}

Digits == {"0", "1", "2"}

Letters == {"n", "a"}

(* '^' under re.MULTILINE: the start of the text or just after a newline *)
AtLineStart(content, i) == i = 1 \/ content[i - 1] = "N"

(* Index of the closing quote of a match of the pattern starting at i, or  *)
(* 0 when the pattern does not match at i.  [^"]* takes every character   *)
(* but the quote, the newline included, so the match ends at the first    *)
(* quote after the opening one wherever that is.                          *)
MatchEnd(content, i) ==
    IF /\ AtLineStart(content, i)
       /\ i + 1 <= Len(content)
       /\ content[i] = "A"
       /\ content[i + 1] = "Q"
       /\ \E j \in (i + 2)..Len(content) : content[j] = "Q"
    THEN CHOOSE j \in (i + 2)..Len(content) :
            /\ content[j] = "Q"
            /\ \A k \in (i + 2)..(j - 1) : content[k] # "Q"
    ELSE 0

(* The replacement template f'ARG VECTORCHORD="{version}"' *)
Replacement(version) == <<"A", "Q">> \o version \o <<"Q">>

(* re's expansion of a replacement template: \n is a newline, \\ a        *)
(* backslash, a backslash before a digit is a group reference (the        *)
(* pattern has no group: error), before another letter a bad escape       *)
(* (error), before anything else it is kept with the character.           *)
RECURSIVE ExpandTemplate(_)
ExpandTemplate(t) ==
    IF t = <<>> THEN [err |-> FALSE, text |-> <<>>]
    ELSE IF t[1] # "B" \/ Len(t) = 1
    THEN LET r == ExpandTemplate(Tail(t))
         IN  [err |-> r.err, text |-> <<t[1]>> \o r.text]
    ELSE LET c == t[2]
             r == ExpandTemplate(Drop(t, 2))
         IN  IF c = "n" THEN [err |-> r.err, text |-> <<"N">> \o r.text]
             ELSE IF c = "B" THEN [err |-> r.err, text |-> <<"B">> \o r.text]
             ELSE IF c \in Digits \cup Letters THEN [err |-> TRUE, text |-> <<>>]
             ELSE [err |-> r.err, text |-> <<"B", c>> \o r.text]

(* re.sub: scan left to right, replace each non-overlapping match *)
RECURSIVE SubFrom(_, _, _)
SubFrom(content, i, repl) ==
    IF i > Len(content) THEN <<>>
    ELSE LET j == MatchEnd(content, i)
         IN  IF j = 0
             THEN <<content[i]>> \o SubFrom(content, i + 1, repl)
             ELSE repl \o SubFrom(content, j + 1, repl)

ReSub(repl, content) == SubFrom(content, 1, repl)

IoOutcomes == {"ok", "read_error", "open_write_error", "write_error"}

(* How much of the new content may be in the file after f.write() failed: *)
(* any proper prefix of it.                                                *)
WriteCuts(version, content, fs) ==
    IF fs = "write_error"
    THEN 0..(Len(ReSub(ExpandTemplate(Replacement(version)).text, content)) - 1)
    ELSE {0}

(* update_dockerfile(version) on a file holding `content`; fs is what the *)
(* file system does; cut is how much of the new content reached the file  *)
(* when the write fails after open(path, 'w') truncated it.               *)
update_dockerfile(version, content, fs, cut) ==
    LET tmpl == ExpandTemplate(Replacement(version))
        new_content == ReSub(tmpl.text, content)
    IN  IF fs = "read_error" \/ tmpl.err
        THEN [ok |-> FALSE, file |-> content, opened |-> FALSE,
              msg |-> Msg("Error updating Dockerfile", <<>>)]
        ELSE IF new_content = content
        THEN [ok |-> FALSE, file |-> content, opened |-> FALSE,
              msg |-> Msg("Warning: No VECTORCHORD version found to update",
                         <<>>)]
        ELSE IF fs = "open_write_error"
        THEN [ok |-> FALSE, file |-> content, opened |-> FALSE,
              msg |-> Msg("Error updating Dockerfile", <<>>)]
        ELSE IF fs = "write_error"
        THEN [ok |-> FALSE, file |-> Take(new_content, cut), opened |-> TRUE,
              msg |-> Msg("Error updating Dockerfile", <<>>)]
        ELSE [ok |-> TRUE, file |-> new_content, opened |-> TRUE,
              msg |-> Msg("Updated Dockerfile: VECTORCHORD version set to",
                         version)]

----------------------------------------------------------------------------
(* fetch_vectorchord_releases *)

(* Mutant of LStripV: tag_name.removeprefix('v'), one 'v' at most *)
LStripV_Once(tag_name) ==
    IF tag_name # <<>> /\ tag_name[1] = "v" THEN Tail(tag_name) ELSE tag_name

(* tag_name.lstrip('v'): every leading 'v' is removed *)
RECURSIVE LStripV(_)
LStripV(tag_name) ==
    IF tag_name # <<>> /\ tag_name[1] = "v"
    THEN LStripV(Tail(tag_name))
    ELSE tag_name

(* release.get(key, False) on a flag that is "true", "false" or "absent" *)
GetFlag(flag) == flag = "true"

(* Mutant of ReleaseLoop: only the prerelease flag is tested *)
RECURSIVE ReleaseLoop_IgnoresDraft(_, _, _)
ReleaseLoop_IgnoresDraft(releases, i, acc) ==
    IF i > Len(releases) THEN [raised |-> "", versions |-> acc]
    ELSE LET release == releases[i]
         IN  IF ~release.isObject
             THEN [raised |-> "AttributeError", versions |-> acc]
             ELSE IF ~GetFlag(release.prerelease)
             THEN IF ~release.hasTag
                  THEN [raised |-> "KeyError", versions |-> acc]
                  ELSE ReleaseLoop_IgnoresDraft(releases, i + 1,
                                   Append(acc, LStripV(release.tag_name)))
             ELSE ReleaseLoop_IgnoresDraft(releases, i + 1, acc)

(* The loop over the decoded payload, from element i on *)
RECURSIVE ReleaseLoop(_, _, _)
ReleaseLoop(releases, i, acc) ==
    IF i > Len(releases) THEN [raised |-> "", versions |-> acc]
    ELSE LET release == releases[i]
         IN  IF ~release.isObject
             THEN [raised |-> "AttributeError", versions |-> acc]
             ELSE IF ~GetFlag(release.prerelease) /\ ~GetFlag(release.draft)
             THEN IF ~release.hasTag
                  THEN [raised |-> "KeyError", versions |-> acc]
                  ELSE ReleaseLoop(releases, i + 1,
                                   Append(acc, LStripV(release.tag_name)))
             ELSE ReleaseLoop(releases, i + 1, acc)

(* A JSON payload is an array of releases, a number or null ("scalar":     *)
(* not iterable), an object with keys ("object": iterating it gives       *)
(* strings, which have no .get) or the empty object (nothing to iterate). *)
(* What the call does with a response: returns a list, returns None after *)
(* printing the error (requests.RequestException), or lets another        *)
(* exception propagate.  jsonCaught: whether the installed requests       *)
(* raises its own JSONDecodeError (a RequestException) for a body that is *)
(* not JSON, or a plain ValueError.                                       *)
fetch_vectorchord_releases(resp, jsonCaught) ==
    IF resp.kind \in {"network_error", "http_error"}
    THEN [raised |-> "", ret |-> None,
          printed |-> <<Msg("Error fetching VectorChord releases", <<>>)>>]
    ELSE IF resp.kind = "bad_json"
    THEN IF jsonCaught
         THEN [raised |-> "", ret |-> None,
               printed |-> <<Msg("Error fetching VectorChord releases", <<>>)>>]
         ELSE [raised |-> "ValueError", ret |-> None, printed |-> <<>>]
    ELSE IF resp.shape = "scalar"
    THEN [raised |-> "TypeError", ret |-> None, printed |-> <<>>]
    ELSE IF resp.shape = "object"
    THEN [raised |-> "AttributeError", ret |-> None, printed |-> <<>>]
    ELSE IF resp.shape = "empty_object"
    THEN [raised |-> "", ret |-> Some(<<>>), printed |-> <<>>]
    ELSE LET r == ReleaseLoop(resp.body, 1, <<>>)
         IN  IF r.raised # ""
             THEN [raised |-> r.raised, ret |-> None, printed |-> <<>>]
             ELSE [raised |-> "", ret |-> Some(Take(r.versions, MaxVersions)),
                   printed |-> <<>>]

----------------------------------------------------------------------------
(* select_version *)

InputAlphabet == {" ", "-", "0", "1", "2"}

(* str.strip() *)
RECURSIVE LStripSpace(_)
LStripSpace(s) ==
    IF s # <<>> /\ s[1] = " " THEN LStripSpace(Tail(s)) ELSE s

RECURSIVE RStripSpace(_)
RStripSpace(s) ==
    IF s # <<>> /\ s[Len(s)] = " "
    THEN RStripSpace(SubSeq(s, 1, Len(s) - 1))
    ELSE s

Strip(s) == RStripSpace(LStripSpace(s))

DigitValue(c) == IF c = "0" THEN 0 ELSE IF c = "1" THEN 1 ELSE 2

RECURSIVE DecimalValue(_, _)
DecimalValue(s, acc) ==
    IF s = <<>> THEN acc
    ELSE DecimalValue(Tail(s), 10 * acc + DigitValue(s[1]))

(* int(choice): an optional sign, then at least one digit and only digits; *)
(* anything else raises ValueError.                                        *)
IntParse(s) ==
    LET signed == s # <<>> /\ s[1] \in {"-", "+"}
        body == IF signed THEN Tail(s) ELSE s
        neg == signed /\ s[1] = "-"
    IN  IF body = <<>> \/ \E k \in 1..Len(body) : body[k] \notin Digits
        THEN [ok |-> FALSE, val |-> 0]
        ELSE [ok |-> TRUE,
              val |-> IF neg THEN 0 - DecimalValue(body, 0)
                      ELSE DecimalValue(body, 0)]

(* Mutant of select_interrupted: no except KeyboardInterrupt clause *)
select_interrupted_NotCaught(exc) ==
    [raised |-> exc, ret |-> None, printed |-> <<>>]

(* input() raised exc inside the loop's try: KeyboardInterrupt is caught, *)
(* the notice printed and None returned; anything else propagates.        *)
select_interrupted(exc) ==
    IF exc = "KeyboardInterrupt"
    THEN [raised |-> "", ret |-> None,
          printed |-> <<Msg("Operation cancelled", <<>>)>>]
    ELSE [raised |-> exc, ret |-> None, printed |-> <<>>]

(* Mutant of select_iteration: the range test is 0 < index < len *)
select_iteration_SkipsFirst(vs, line) ==
    LET c == Strip(line)
        p == IntParse(c)
        index == p.val - 1
    IN  IF c = <<>> THEN [returns |-> FALSE, ret |-> None, printed |-> <<>>]
        ELSE IF ~p.ok
        THEN [returns |-> FALSE, ret |-> None,
              printed |-> <<Msg("Please enter a valid number", <<>>)>>]
        ELSE IF 0 < index /\ index < Len(vs)
        THEN [returns |-> TRUE, ret |-> Some(vs[index + 1]), printed |-> <<>>]
        ELSE [returns |-> FALSE, ret |-> None,
              printed |-> <<Msg("Please enter a number between 1 and",
                               <<ToString(Len(vs))>>)>>]

(* Mutant of select_iteration: no "if not choice: continue", so int('')    *)
(* raises ValueError and the message is printed                           *)
select_iteration_NoEmptyCheck(vs, line) ==
    LET c == Strip(line)
        p == IntParse(c)
        index == p.val - 1
    IN  IF ~p.ok
        THEN [returns |-> FALSE, ret |-> None,
              printed |-> <<Msg("Please enter a valid number", <<>>)>>]
        ELSE IF 0 <= index /\ index < Len(vs)
        THEN [returns |-> TRUE, ret |-> Some(vs[index + 1]), printed |-> <<>>]
        ELSE [returns |-> FALSE, ret |-> None,
              printed |-> <<Msg("Please enter a number between 1 and",
                               <<ToString(Len(vs))>>)>>]

(* One pass of the while-loop body on the line the operator typed:        *)
(* "continue" with no message, a return, or a message and another pass.   *)
select_iteration(vs, line) ==
    LET c == Strip(line)
        p == IntParse(c)
        index == p.val - 1
    IN  IF c = <<>> THEN [returns |-> FALSE, ret |-> None, printed |-> <<>>]
        ELSE IF ~p.ok
        THEN [returns |-> FALSE, ret |-> None,
              printed |-> <<Msg("Please enter a valid number", <<>>)>>]
        ELSE IF 0 <= index /\ index < Len(vs)
        THEN [returns |-> TRUE, ret |-> Some(vs[index + 1]), printed |-> <<>>]
        ELSE [returns |-> FALSE, ret |-> None,
              printed |-> <<Msg("Please enter a number between 1 and",
                               <<ToString(Len(vs))>>)>>]

----------------------------------------------------------------------------
(* run_git_command and the repository it acts on *)

GitOutcomes == {"ok", "fail", "oserror"}

Cmd(verb, arg) == [verb |-> verb, arg |-> arg]

(* Mutant of run_git_command: check=True is missing, so a non-zero exit *)
(* raises nothing and the call returns True.                              *)
run_git_command_NoCheck(cmd, outcome) ==
    [raised |-> IF outcome = "oserror" THEN "FileNotFoundError" ELSE "",
     success |-> outcome # "oserror"]

(* subprocess.run(["git"] + cmd, check=True): (True, stdout) on exit 0,   *)
(* (False, stderr) on CalledProcessError; any other exception (git not    *)
(* found) is not caught.                                                  *)
run_git_command(cmd, outcome) ==
    [raised |-> IF outcome = "oserror" THEN "FileNotFoundError" ELSE "",
     success |-> outcome = "ok"]

(* What a git command that exits 0 did to the repository *)
GitEffect(r, cmd) ==
    IF cmd.verb = "checkout" THEN [r EXCEPT !.head = cmd.arg]
    ELSE IF cmd.verb = "checkout -b"
    THEN [r EXCEPT !.head = cmd.arg, !.branches = @ \cup {cmd.arg}]
    ELSE IF cmd.verb = "add" THEN [r EXCEPT !.staged = TRUE]
    ELSE IF cmd.verb = "commit -m"
    THEN [r EXCEPT !.staged = FALSE,
                   !.commits = Append(@, [branch |-> r.head, msg |-> cmd.arg])]
    ELSE IF cmd.verb = "tag" THEN [r EXCEPT !.tags = @ \cup {cmd.arg}]
    ELSE [r EXCEPT !.remote = @ \cup {cmd.arg}]

BaseBranch == <<"main">>

DockerfilePath == <<"postgres-appliance/Dockerfile">>

BranchName(version) == <<"4.0-master-vectorchord-">> \o version

(* Mutant of TagName: the tag is named like the branch *)
TagName_NoSuffix(branch_name) == branch_name

TagName(branch_name) == branch_name \o <<"-1">>

CommitMsg(version) == <<"Update VectorChord to ">> \o version

----------------------------------------------------------------------------
(* Inputs *)

Files == SeqsUpTo(FileAlphabet, MaxFileLen)

Versions == SeqsUpTo(VersionAlphabet, MaxVersionLen) \ {<<>>}

Flags == {"true", "false", "absent"}

Release(hasTag, tag, pre, draft) ==
    [isObject |-> TRUE, hasTag |-> hasTag, tag_name |-> tag,
     prerelease |-> pre, draft |-> draft]

NonObject == [isObject |-> FALSE, hasTag |-> FALSE, tag_name |-> <<>>,
              prerelease |-> "absent", draft |-> "absent"]

ReleaseKinds(tags) ==
    {Release(TRUE, t, p, d) : t \in tags, p \in Flags, d \in Flags}
    \cup {Release(FALSE, <<>>, p, d) : p \in Flags, d \in Flags}
    \cup {NonObject}

Response(kind, shape, body) == [kind |-> kind, shape |-> shape, body |-> body]

NoResponse == Response("none", "none", <<>>)

FailedResponses ==
    {Response(k, "none", <<>>) : k \in {"network_error", "http_error", "bad_json"}}
    \cup {Response("json", sh, <<>>) : sh \in {"scalar", "object", "empty_object"}}

(* The responses a run of main is given: every short payload *)
MainTags == {<<"v", "1">>, <<"2">>}

MainResponses ==
    FailedResponses
    \cup {Response("json", "array", b) :
            b \in SeqsUpTo(ReleaseKinds(MainTags), MaxMainPayloadLen)}

(* The payloads the fetch alone is given: a motif of one or two releases  *)
(* repeated up to MaxPayloadLen entries, so that more than MaxVersions    *)
(* releases pass the filter.                                               *)
FetchTags == {<<"v", "1">>, <<"2">>, <<"v">>}

Motifs == UNION {[1..k -> ReleaseKinds(FetchTags)] : k \in {1, 2}}

Cycle(motif, n) == [i \in 1..n |-> motif[((i - 1) % Len(motif)) + 1]]

(* ... or one release followed by copies of another *)
Lead(motif, n) == [i \in 1..n |-> IF i = 1 THEN motif[1] ELSE motif[Len(motif)]]

Payload(family, m, n) == IF family = "cycle" THEN Cycle(m, n) ELSE Lead(m, n)

(* The tags the strip alone is given: 'v', another letter and a digit in   *)
(* every arrangement                                                       *)
TagAlphabet == {"v", "r", "1"}

Tags == SeqsUpTo(TagAlphabet, MaxTagLen)

InputLines == SeqsUpTo(InputAlphabet, MaxInputLen)

Event(kind, line) == [kind |-> kind, line |-> line]

NoEvent == Event("none", <<>>)

(* What input() can do: return a line, or raise on Ctrl-C or end of input *)
PromptEvents ==
    {Event("line", l) : l \in InputLines}
    \cup {Event(k, <<>>) : k \in {"KeyboardInterrupt", "EOFError"}}

(* The candidate lists select_version alone is given *)
CandidateLists ==
    UNION {[1..k -> {<<"1">>, <<"2">>, <<>>}] : k \in 1..MaxCandidates}

----------------------------------------------------------------------------
(* The run of main() *)

Order == <<"checkout_base", "fetch", "select", "create_branch", "rewrite_pin",
           "stage", "commit", "tag", "push_branch", "push_tag">>

States == <<"Start", "BranchChecked", "ReleasesFetched", "VersionSelected",
            "BranchCreated", "FileUpdated", "Staged", "Committed", "Tagged",
            "BranchPushed", "TagPushed", "Done">>

Op(name, ok) == [op |-> name, ok |-> ok]

InitRepo == [head |-> <<"work">>, branches |-> {BaseBranch, <<"work">>},
             staged |-> FALSE, commits |-> <<>>, tags |-> {}, remote |-> {}]

Init ==
    /\ pc = "Start"
    /\ exit_code = -1
    /\ out = <<>>
    /\ git_log = <<>>
    /\ repo = InitRepo
    /\ file0 = <<>>
    /\ file = <<>>
    /\ writes = 0
    /\ io = "none"
    /\ response = NoResponse
    /\ versions = None
    /\ selected_version = None
    /\ choice = NoEvent
    /\ prompts = 0
    /\ ops = <<>>
    /\ trace = <<"Start">>

(* Mutants of Exit1: the failure is reported but the run is not stopped;  *)
(* the run stops with status 0.                                           *)
Exit1_NoExit(opname, msgs) ==
    /\ pc' = pc
    /\ exit_code' = exit_code
    /\ out' = msgs
    /\ ops' = Append(ops, Op(opname, FALSE))
    /\ trace' = trace

Exit1_Status0(opname, msgs) ==
    /\ pc' = "Failed"
    /\ exit_code' = 0
    /\ out' = msgs
    /\ ops' = Append(ops, Op(opname, FALSE))
    /\ trace' = trace

(* sys.exit(1) after printing msgs; the failed operation is logged *)
Exit1(opname, msgs) ==
    /\ pc' = "Failed"
    /\ exit_code' = 1
    /\ out' = msgs
    /\ ops' = Append(ops, Op(opname, FALSE))
    /\ trace' = trace

(* An exception nobody catches: the interpreter prints the traceback and   *)
(* exits with status 1.                                                    *)
Crash(opname, msgs, exc) ==
    Exit1(opname, msgs \o <<Msg("Traceback", <<exc>>)>>)

Advance(opname, state, msgs) ==
    /\ pc' = state
    /\ exit_code' = exit_code
    /\ out' = msgs
    /\ ops' = Append(ops, Op(opname, TRUE))
    /\ trace' = Append(trace, state)

(* Mutant of GitStep: a failed command is followed by a checkout of the   *)
(* base branch before the exit                                            *)
GitStep_RollsBack(from, to, opname, cmd, before, errtext, after) ==
    /\ pc = from
    /\ \E outcome \in GitOutcomes :
          LET r == run_git_command(cmd, outcome)
          IN  /\ IF r.raised # "" THEN Crash(opname, before, r.raised)
                 ELSE IF ~r.success
                 THEN Exit1(opname, before \o <<Msg(errtext, <<"stderr">>)>>)
                 ELSE Advance(opname, to, before \o after)
              /\ IF r.raised = "" /\ ~r.success
                 THEN /\ git_log' = git_log \o <<cmd, Cmd("checkout", BaseBranch)>>
                      /\ repo' = [repo EXCEPT !.head = BaseBranch]
                 ELSE /\ git_log' = Append(git_log, cmd)
                      /\ repo' = IF outcome = "ok" THEN GitEffect(repo, cmd)
                                 ELSE repo
    /\ choice' = NoEvent
    /\ UNCHANGED <<file0, file, writes, io, response, versions, selected_version,
                   prompts>>

(* One "success, output = run_git_command(cmd); if not success: ..." step *)
GitStep(from, to, opname, cmd, before, errtext, after) ==
    /\ pc = from
    /\ \E outcome \in GitOutcomes :
          LET r == run_git_command(cmd, outcome)
          IN  /\ git_log' = Append(git_log, cmd)
              /\ repo' = IF outcome = "ok" THEN GitEffect(repo, cmd) ELSE repo
              /\ IF r.raised # "" THEN Crash(opname, before, r.raised)
                 ELSE IF ~r.success
                 THEN Exit1(opname, before \o <<Msg(errtext, <<"stderr">>)>>)
                 ELSE Advance(opname, to, before \o after)
    /\ choice' = NoEvent
    /\ UNCHANGED <<file0, file, writes, io, response, versions, selected_version,
                   prompts>>

(* 1. Checkout main branch *)
CheckoutMain ==
    GitStep("Start", "BranchChecked", "checkout_base",
            Cmd("checkout", BaseBranch),
            <<Msg("VectorChord Version Update Script", <<>>),
              Msg("1. Checking out main branch...", <<>>)>>,
            "Error checking out main branch",
            <<Msg("Successfully checked out main branch", <<>>)>>)

PromptLine(vs) == Msg("Select version", <<"1", ToString(Len(vs))>>)

(* select_version up to its first input(): the numbered list, the prompt *)
RenderList(vs) ==
    <<Msg("Available VectorChord versions:", <<>>)>>
    \o [i \in 1..Len(vs) |-> Msg(ToString(i), vs[i])]
    \o <<PromptLine(vs)>>

(* 2. Fetch VectorChord versions; on success main goes on into             *)
(* select_version, which prints the list and waits at its first prompt.   *)
Fetch ==
    /\ pc = "BranchChecked"
    /\ \E resp \in MainResponses, jsonCaught \in BOOLEAN :
          LET before == <<Msg("2. Fetching VectorChord releases from GitHub...", <<>>)>>
              r == fetch_vectorchord_releases(resp, jsonCaught)
          IN  IF r.raised # ""
              THEN /\ Crash("fetch", before, r.raised)
                   /\ response' = resp
                   /\ versions' = versions
              ELSE IF ~Truthy(r.ret)
              THEN /\ Exit1("fetch", before \o r.printed
                              \o <<Msg("Failed to fetch VectorChord versions", <<>>)>>)
                   /\ response' = resp
                   /\ versions' = r.ret
              ELSE /\ Advance("fetch", "ReleasesFetched",
                              before
                              \o <<Msg("Found VectorChord releases",
                                       <<ToString(Len(r.ret.val))>>)>>
                              \o RenderList(r.ret.val))
                   /\ response' = NoResponse
                   /\ versions' = r.ret
    /\ UNCHANGED <<git_log, repo, file0, file, writes, io, selected_version,
                   choice, prompts>>

(* 3. One input() of select_version's loop and what follows it: another   *)
(* prompt, or the return to main and main's test of the selection.        *)
SelectPrompt ==
    /\ pc = "ReleasesFetched"
    /\ prompts < MaxPrompts
    /\ \E ev \in PromptEvents :
          /\ prompts' = prompts + 1
          /\ choice' = ev
          /\ IF ev.kind # "line"
             THEN LET x == select_interrupted(ev.kind)
                  IN  /\ selected_version' = selected_version
                      /\ IF x.raised # "" THEN Crash("select", <<>>, x.raised)
                         ELSE Exit1("select", x.printed
                                \o <<Msg("No version selected, exiting", <<>>)>>)
             ELSE LET it == select_iteration(versions.val, ev.line)
                  IN  IF ~it.returns
                      THEN /\ pc' = pc
                           /\ exit_code' = exit_code
                           /\ out' = it.printed \o <<PromptLine(versions.val)>>
                           /\ UNCHANGED <<ops, trace, selected_version>>
                      ELSE IF ~Truthy(it.ret)
                      THEN /\ Exit1("select",
                                    <<Msg("No version selected, exiting", <<>>)>>)
                           /\ selected_version' = it.ret
                      ELSE /\ Advance("select", "VersionSelected",
                                      <<Msg("Selected VectorChord version:",
                                            it.ret.val)>>)
                           /\ selected_version' = it.ret
    /\ UNCHANGED <<git_log, repo, file0, file, writes, io, response, versions>>

branch_name == BranchName(selected_version.val)

tag_name == TagName(branch_name)

(* 4. Create new branch *)
CreateBranch ==
    GitStep("VersionSelected", "BranchCreated", "create_branch",
            Cmd("checkout -b", branch_name),
            <<Msg("3. Creating branch:", branch_name)>>,
            "Error creating branch",
            <<Msg("Created and switched to branch:", branch_name)>>)

(* Mutant of UpdateDockerfile: the file is rewritten as soon as a version *)
(* is selected, before the branch is created                              *)
UpdateDockerfile_BeforeBranch ==
    /\ pc \in {"VersionSelected", "BranchCreated"}
    /\ \E content \in Files, io_ \in IoOutcomes :
       \E cut \in WriteCuts(selected_version.val, content, io_) :
          LET before == <<Msg("4. Updating Dockerfile...", <<>>)>>
              r == update_dockerfile(selected_version.val, content, io_, cut)
          IN  /\ file0' = content
              /\ io' = io_
              /\ file' = r.file
              /\ writes' = IF r.opened THEN writes + 1 ELSE writes
              /\ IF ~r.ok
                 THEN Exit1("rewrite_pin", before \o <<r.msg>>
                              \o <<Msg("Failed to update Dockerfile", <<>>)>>)
                 ELSE Advance("rewrite_pin", "FileUpdated", before \o <<r.msg>>)
    /\ UNCHANGED <<git_log, repo, response, versions, selected_version,
                   choice, prompts>>

(* 5. Update Dockerfile.  content is what open(path).read() returns: the  *)
(* script has not looked at the file before this step.                    *)
UpdateDockerfile ==
    /\ pc = "BranchCreated"
    /\ \E content \in Files, io_ \in IoOutcomes :
       \E cut \in WriteCuts(selected_version.val, content, io_) :
          LET before == <<Msg("4. Updating Dockerfile...", <<>>)>>
              r == update_dockerfile(selected_version.val, content, io_, cut)
          IN  /\ file0' = content
              /\ io' = io_
              /\ file' = r.file
              /\ writes' = IF r.opened THEN writes + 1 ELSE writes
              /\ IF ~r.ok
                 THEN Exit1("rewrite_pin", before \o <<r.msg>>
                              \o <<Msg("Failed to update Dockerfile", <<>>)>>)
                 ELSE Advance("rewrite_pin", "FileUpdated", before \o <<r.msg>>)
    /\ UNCHANGED <<git_log, repo, response, versions, selected_version,
                   choice, prompts>>

(* 6. Commit changes: git add, then git commit *)
Stage ==
    GitStep("FileUpdated", "Staged", "stage", Cmd("add", DockerfilePath),
            <<Msg("5. Committing changes...", <<>>)>>,
            "Error adding Dockerfile", <<>>)

Commit ==
    GitStep("Staged", "Committed", "commit",
            Cmd("commit -m", CommitMsg(selected_version.val)),
            <<>>, "Error committing changes",
            <<Msg("Committed changes:", CommitMsg(selected_version.val))>>)

(* 7. Create tag *)
CreateTag ==
    GitStep("Committed", "Tagged", "tag", Cmd("tag", tag_name),
            <<Msg("6. Creating tag:", tag_name)>>,
            "Error creating tag",
            <<Msg("Created tag:", tag_name)>>)

(* 8. Push branch and tag *)
PushBranch ==
    GitStep("Tagged", "BranchPushed", "push_branch",
            Cmd("push -u origin", branch_name),
            <<Msg("7. Pushing branch and tag to GitHub...", <<>>)>>,
            "Error pushing branch",
            <<Msg("Pushed branch:", branch_name)>>)

PushTag ==
    GitStep("BranchPushed", "TagPushed", "push_tag",
            Cmd("push origin", tag_name),
            <<>>, "Error pushing tag",
            <<Msg("Pushed tag:", tag_name)>>)

(* The closing summary; main returns and the process exits with status 0 *)
Finish ==
    /\ pc = "TagPushed"
    /\ pc' = "Done"
    /\ exit_code' = 0
    /\ out' = <<Msg("Successfully updated VectorChord to version",
                    selected_version.val),
                Msg("Branch:", branch_name),
                Msg("Tag:", tag_name)>>
    /\ trace' = Append(trace, "Done")
    /\ UNCHANGED <<git_log, repo, file0, file, writes, io, response, versions,
                   selected_version, choice, prompts, ops>>

Next ==
    \/ CheckoutMain
    \/ Fetch
    \/ SelectPrompt
    \/ CreateBranch
    \/ UpdateDockerfile
    \/ Stage
    \/ Commit
    \/ CreateTag
    \/ PushBranch
    \/ PushTag
    \/ Finish

Spec == Init /\ [][Next]_vars

----------------------------------------------------------------------------
(* The functions on their own, each from the state main calls it in and   *)
(* over a wider range of inputs.                                           *)

(* main as it stands when it has reached `state` with the operations      *)
(* before it done                                                          *)
Reached(state, n) ==
    /\ pc = state
    /\ exit_code = -1
    /\ out = <<>>
    /\ git_log = <<Cmd("checkout", BaseBranch)>>
    /\ repo = [InitRepo EXCEPT !.head = BaseBranch]
    /\ file0 = <<>>
    /\ file = <<>>
    /\ writes = 0
    /\ io = "none"
    /\ response = NoResponse
    /\ choice = NoEvent
    /\ prompts = 0
    /\ ops = [i \in 1..n |-> Op(Order[i], TRUE)]
    /\ trace = SubSeq(States, 1, n + 1)

(* fetch_vectorchord_releases() alone: the call and its outcome *)
InitFetch ==
    /\ Reached("BranchChecked", 1)
    /\ versions = None
    /\ selected_version = None

FetchCallOn(resp, jsonCaught) ==
    LET r == fetch_vectorchord_releases(resp, jsonCaught)
    IN  /\ response' = resp
        /\ versions' = r.ret
        /\ out' = r.printed
        /\ pc' = IF r.raised # "" THEN r.raised ELSE "FetchReturned"

FetchCall ==
    /\ pc = "BranchChecked"
    /\ \/ \E resp \in FailedResponses, jsonCaught \in BOOLEAN :
             FetchCallOn(resp, jsonCaught)
       \/ \E family \in {"cycle", "lead"}, m \in Motifs, n \in 0..MaxPayloadLen :
             FetchCallOn(Response("json", "array", Payload(family, m, n)), TRUE)
    /\ UNCHANGED <<exit_code, git_log, repo, file0, file, writes, io,
                   selected_version, choice, prompts, ops, trace>>

SpecFetch == InitFetch /\ [][FetchCall]_vars

(* The fetch on a payload of one stable release: the tag and its version *)
StripCall ==
    /\ pc = "BranchChecked"
    /\ \E tag \in Tags :
          FetchCallOn(Response("json", "array",
                               <<Release(TRUE, tag, "false", "absent")>>), TRUE)
    /\ UNCHANGED <<exit_code, git_log, repo, file0, file, writes, io,
                   selected_version, choice, prompts, ops, trace>>

SpecStrip == InitFetch /\ [][StripCall]_vars

(* select_version(versions) and main's test of its result *)
InitSelect ==
    /\ Reached("ReleasesFetched", 2)
    /\ versions \in {Some(l) : l \in CandidateLists}
    /\ selected_version = None

SpecSelect == InitSelect /\ [][SelectPrompt]_vars

(* update_dockerfile(version) and main's test of its result *)
InitPin ==
    /\ Reached("BranchCreated", 4)
    /\ versions = None
    /\ selected_version \in {Some(v) : v \in Versions}

SpecPin == InitPin /\ [][UpdateDockerfile]_vars

----------------------------------------------------------------------------
(* Properties *)

LastOp == ops[Len(ops)]

Failed(opname) == ops # <<>> /\ LastOp.op = opname /\ ~LastOp.ok

GitOps == {"checkout_base", "create_branch", "stage", "commit", "tag",
           "push_branch", "push_tag"}

Printed(text) == \E i \in 1..Len(out) : out[i].text = text

(* C1: the operations run in the fixed order checkout base, fetch,       *)
(* select, create branch, rewrite pin, stage, commit, tag, push branch,   *)
(* push tag; an operation that fails is the last one run (none after it,  *)
(* no second attempt at it), and the run is then in Failed with a         *)
(* non-zero exit status; every git operation run is one git command.      *)
C1_FailFastInOrder ==
    /\ Len(ops) <= Len(Order)
    /\ \A i \in 1..Len(ops) : ops[i].op = Order[i]
    /\ \A i \in 1..(Len(ops) - 1) : ops[i].ok
    /\ (ops # <<>> /\ ~LastOp.ok) <=> pc = "Failed"
    /\ pc = "Failed" => exit_code # 0 /\ exit_code # -1
    /\ Len(git_log) = Cardinality({i \in 1..Len(ops) : ops[i].op \in GitOps})

C1_Witness == pc = "Failed" /\ Failed("commit") /\ Len(git_log) = 4

(* C2 as stated: when the release fetch fails, no version-control command *)
(* of any kind has been invoked, no branch is created and the exit status *)
(* is non-zero.                                                           *)
C2_NoGitBeforeFetchFailure ==
    Failed("fetch") =>
        /\ git_log = <<>>
        /\ repo.branches = InitRepo.branches
        /\ pc = "Failed" /\ exit_code = 1

(* C2 amended: when the release fetch fails, the only version-control     *)
(* command invoked in the run is the checkout of the base branch that     *)
(* precedes the fetch; no branch is created, nothing is staged,           *)
(* committed, tagged or pushed, and the exit status is non-zero.          *)
C2_OnlyBaseCheckoutBeforeFetchFailure ==
    Failed("fetch") =>
        /\ git_log = <<Cmd("checkout", BaseBranch)>>
        /\ repo = [InitRepo EXCEPT !.head = BaseBranch]
        /\ pc = "Failed" /\ exit_code = 1

C2_Witness ==
    Failed("fetch") /\ response.kind = "http_error" /\ pc = "Failed"

(* A pin line: a line that starts with  ARG VECTORCHORD="  and has the    *)
(* closing quote further on in the same line.                             *)
LineStartAt(c, i) == i = 1 \/ c[i - 1] = "N"

PinLineAt(c, i) ==
    /\ LineStartAt(c, i)
    /\ i + 1 <= Len(c)
    /\ c[i] = "A" /\ c[i + 1] = "Q"
    /\ \E j \in (i + 2)..Len(c) :
          c[j] = "Q" /\ \A k \in (i + 2)..j : c[k] # "N"

PinLines(c) == {i \in 1..Len(c) : PinLineAt(c, i)}

PinRewritten == Len(ops) >= 5

(* C3: when the build file has no pin line, update_dockerfile reports     *)
(* failure and leaves the file as it was, and main halts with a non-zero  *)
(* status before git add (so before commit, tag and both pushes).         *)
C3_NoPinLineHaltsBeforeStage ==
    (PinRewritten /\ PinLines(file0) = {}) =>
        /\ ~ops[5].ok
        /\ file = file0 /\ writes = 0
        /\ pc = "Failed" /\ exit_code = 1
        /\ Len(git_log) = 2

(* The file with the quoted value of the pin line at i replaced by v and  *)
(* everything else kept.                                                  *)
ClosingQuote(c, i) ==
    CHOOSE j \in (i + 2)..Len(c) :
        c[j] = "Q" /\ \A k \in (i + 2)..(j - 1) : c[k] # "Q"

PointEdit(c, i, v) ==
    SubSeq(c, 1, i + 1) \o v \o SubSeq(c, ClosingQuote(c, i), Len(c))

(* C4: update_dockerfile is a pure point-edit: with exactly one pin line  *)
(* in the file, the file afterwards differs from the one read only in     *)
(* that line's quoted value, which is the new version; with no pin line   *)
(* the file is unchanged and the call reports failure (file I/O working). *)
C4_PurePointEdit ==
    (PinRewritten /\ io = "ok") =>
        /\ Cardinality(PinLines(file0)) = 1 =>
              file = PointEdit(file0, CHOOSE i \in PinLines(file0) : TRUE,
                               selected_version.val)
        /\ PinLines(file0) = {} => file = file0 /\ ~ops[5].ok

(* C5: update_dockerfile reports failure over the file's content only     *)
(* when no line is a pin line: with a pin line in the file (its value     *)
(* equal to the requested version or not) and file I/O working, it        *)
(* reports success and main goes on to git add.                           *)
C5_PinLineMeansSuccess ==
    (PinRewritten /\ io = "ok" /\ PinLines(file0) # {}) =>
        ops[5].ok

IsStable(r) == r.isObject /\ r.prerelease # "true" /\ r.draft # "true"

StableVersions(body) ==
    LET stable == SelectSeq(body, IsStable)
    IN  [i \in 1..Len(stable) |-> LStripV(stable[i].tag_name)]

(* C6: the list fetch_vectorchord_releases returns holds no release       *)
(* flagged prerelease or draft, has at most 20 entries and keeps the      *)
(* payload's order: it is the first 20 of the payload's unflagged         *)
(* releases.                                                              *)
C6_CandidateList ==
    (pc = "FetchReturned" /\ ~versions.isNone) =>
        /\ Len(versions.val) <= MaxVersions
        /\ versions.val = Take(StableVersions(response.body), MaxVersions)

C6_Witness ==
    /\ pc = "FetchReturned" /\ ~versions.isNone
    /\ Len(versions.val) = MaxVersions
    /\ Len(StableVersions(response.body)) > MaxVersions
    /\ \E i \in 1..Len(response.body) : ~IsStable(response.body[i])

(* A fetch that the claim counts as failed: no answer, a non-2xx answer,  *)
(* or a JSON payload that is not an array of objects with tag_name.  (A   *)
(* body that is no JSON at all is left out: what it raises depends on the *)
(* installed requests.)                                                   *)
BadFetch(resp) ==
    \/ resp.kind \in {"network_error", "http_error"}
    \/ /\ resp.kind = "json"
       /\ \/ resp.shape # "array"
          \/ \E i \in 1..Len(resp.body) :
                ~resp.body[i].isObject \/ ~resp.body[i].hasTag

(* C7: on a network failure, a non-2xx response or a malformed payload,   *)
(* fetch_vectorchord_releases returns None rather than raising or         *)
(* returning a list, and main reports the fetch failure and halts with a  *)
(* non-zero status.                                                       *)
C7_BadFetchReturnsNone ==
    (Len(ops) >= 2 /\ BadFetch(response)) =>
        /\ ~ops[2].ok /\ versions = None
        /\ ~Printed("Traceback")
        /\ Printed("Failed to fetch VectorChord versions")
        /\ pc = "Failed" /\ exit_code = 1

(* k, when the line is a valid choice among n candidates *)
ChoiceOf(line) == IntParse(Strip(line)).val

ValidChoice(line, n) ==
    IntParse(Strip(line)).ok /\ 1 <= ChoiceOf(line) /\ ChoiceOf(line) <= n

(* C8: select_version returns candidates[k-1] for the first input that    *)
(* parses as an integer k with 1 <= k <= n; any other input (empty,       *)
(* non-numeric, 0, negative, above n) re-prompts and never returns; None  *)
(* is returned only on the operator's interrupt.                          *)
C8_FirstValidChoiceReturned ==
    LET n == Len(versions.val)
    IN  /\ (pc = "ReleasesFetched" /\ prompts > 0) =>
              choice.kind = "line" /\ ~ValidChoice(choice.line, n)
        /\ (Len(ops) >= 3 /\ choice.kind = "line") =>
              /\ ValidChoice(choice.line, n)
              /\ selected_version = Some(versions.val[ChoiceOf(choice.line)])
        /\ (Len(ops) >= 3 /\ selected_version.isNone) =>
              choice.kind \in {"KeyboardInterrupt", "EOFError"}
        /\ (Len(ops) >= 3 /\ choice.kind = "KeyboardInterrupt") =>
              selected_version.isNone /\ ~Printed("Traceback")

C8_Witness ==
    /\ pc = "VersionSelected" /\ prompts = 2
    /\ Len(versions.val) = 2
    /\ selected_version = Some(versions.val[2])
    /\ versions.val[1] # versions.val[2]

AllSucceeded == Len(ops) = Len(Order) /\ \A i \in 1..Len(ops) : ops[i].ok

(* C9: the run is Done, with exit status 0 and the summary naming the     *)
(* branch and the tag, exactly when all ten operations succeeded, having  *)
(* passed through Start, BranchChecked, ..., TagPushed in that order;     *)
(* every other end of the run has a non-zero exit status.                 *)
C9_DoneIffAllSucceeded ==
    /\ trace = SubSeq(States, 1, Len(trace))
    /\ pc = "Done" =>
          /\ exit_code = 0 /\ AllSucceeded /\ trace = States
          /\ out[2] = Msg("Branch:", branch_name)
          /\ out[3] = Msg("Tag:", tag_name)
          /\ branch_name \in repo.branches /\ repo.head = branch_name
          /\ repo.commits # <<>> /\ tag_name \in repo.tags
          /\ {branch_name, tag_name} \subseteq repo.remote
    /\ AllSucceeded => pc \in {"TagPushed", "Done"}
    /\ exit_code = 0 => pc = "Done"
    /\ pc = "Failed" => exit_code = 1 /\ ~AllSucceeded
    /\ pc \notin {"Done", "Failed"} => exit_code = -1

C9_Witness == pc = "Done" /\ exit_code = 0

(* C10: an interrupt at the selection prompt makes select_version return  *)
(* None with the cancellation notice, no traceback, and main stops: no    *)
(* branch created, the file not touched, nothing committed, tagged or     *)
(* pushed, exit status non-zero.                                          *)
C10_InterruptStopsCleanly ==
    choice.kind = "KeyboardInterrupt" =>
        /\ pc = "Failed" /\ exit_code = 1
        /\ selected_version = None
        /\ out = <<Msg("Operation cancelled", <<>>),
                   Msg("No version selected, exiting", <<>>)>>
        /\ git_log = <<Cmd("checkout", BaseBranch)>>
        /\ repo = [InitRepo EXCEPT !.head = BaseBranch]
        /\ writes = 0 /\ file = file0 /\ io = "none"

C10_Witness == choice.kind = "KeyboardInterrupt" /\ prompts = 2

(* The tag of the one release of the payload and the version listed for it *)
TagOf == response.body[1].tag_name

Stripped ==
    /\ pc = "FetchReturned" /\ ~versions.isNone
    /\ Len(response.body) = 1 /\ Len(versions.val) = 1

(* The tag with one leading non-numeric character removed, if it has one *)
StripOneMarker(tag) ==
    IF tag # <<>> /\ tag[1] \notin Digits THEN Tail(tag) ELSE tag

(* C11: the version listed for a tag is the tag with exactly one leading  *)
(* non-numeric marker character removed if the tag starts with one, and   *)
(* the tag unchanged otherwise: of two leading markers the second is      *)
(* kept, and a marker other than 'v' is stripped too.                     *)
C11_OneMarkerStripped ==
    Stripped => versions.val[1] = StripOneMarker(TagOf)

(* C12: stripping is idempotent: the version listed for a tag, with or    *)
(* without the marker, is left as it is by another strip.                 *)
C12_StripIdempotent ==
    (pc = "FetchReturned" /\ ~versions.isNone) =>
        \A i \in 1..Len(versions.val) :
            LStripV(versions.val[i]) = versions.val[i]

C12_Witness ==
    /\ Stripped
    /\ TagOf = <<"v", "v", "1", "v">>
    /\ versions.val[1] = <<"1", "v">>

(* The git commands of a complete run for version v, spelled out *)
ArtifactCommands(v) ==
    LET b == <<"4.0-master-vectorchord-">> \o v
        t == <<"4.0-master-vectorchord-">> \o v \o <<"-1">>
    IN  <<Cmd("checkout", <<"main">>),
          Cmd("checkout -b", b),
          Cmd("add", <<"postgres-appliance/Dockerfile">>),
          Cmd("commit -m", <<"Update VectorChord to ">> \o v),
          Cmd("tag", t),
          Cmd("push -u origin", b),
          Cmd("push origin", t)>>

(* The text  ARG VECTORCHORD="v"  stands at the start of a line of c *)
HasPin(c, v) ==
    \E i \in 1..Len(c) :
        /\ LineStartAt(c, i)
        /\ i + Len(v) + 2 <= Len(c)
        /\ SubSeq(c, i, i + Len(v) + 2) = <<"A", "Q">> \o v \o <<"Q">>

(* C13: every artifact of a run derives from the one selected version v:  *)
(* the branch created and pushed is 4.0-master-vectorchord-v, the tag     *)
(* created and pushed is 4.0-master-vectorchord-v-1, the commit message   *)
(* is Update VectorChord to v, the pin written is ARG VECTORCHORD="v",    *)
(* and v is one of the candidates fetched in the run.                     *)
C13_ArtifactsFromSelectedVersion ==
    LET v == selected_version.val
    IN  /\ Len(git_log) >= 2 =>
              /\ ~selected_version.isNone
              /\ \E k \in 1..Len(versions.val) : versions.val[k] = v
              /\ Len(git_log) <= 7
              /\ git_log = SubSeq(ArtifactCommands(v), 1, Len(git_log))
        /\ (Len(ops) >= 5 /\ ops[5].ok) => HasPin(file, v)
        /\ pc = "Done" =>
              /\ repo.head = <<"4.0-master-vectorchord-">> \o v
              /\ repo.commits[Len(repo.commits)] =
                     [branch |-> <<"4.0-master-vectorchord-">> \o v,
                      msg |-> <<"Update VectorChord to ">> \o v]
              /\ <<"4.0-master-vectorchord-">> \o v \o <<"-1">> \in repo.tags
              /\ repo.remote = {<<"4.0-master-vectorchord-">> \o v,
                                <<"4.0-master-vectorchord-">> \o v \o <<"-1">>}

C13_Witness ==
    /\ pc = "Done" /\ selected_version = Some(<<"1">>)
    /\ Len(git_log) = 7 /\ HasPin(file, <<"1">>)

EmptyListFetched == Len(ops) >= 2 /\ versions = Some(<<>>)

Cancelled == choice.kind = "KeyboardInterrupt"

LastLine(text) == out # <<>> /\ out[Len(out)] = Msg(text, <<>>)

NoBranchMade ==
    /\ git_log = <<Cmd("checkout", BaseBranch)>>
    /\ repo.branches = InitRepo.branches
    /\ repo.head = BaseBranch

(* The terminal "no selection, exit" outcome *)
NoSelectionExit ==
    /\ pc = "Failed" /\ exit_code = 1
    /\ LastLine("No version selected, exiting")
    /\ NoBranchMade

(* C14 as stated: a fetch that succeeds with an empty candidate list ends *)
(* the run exactly as an operator cancellation does: the same "no         *)
(* selection, exit" outcome with the same reason reported and the same    *)
(* exit status, no branch created.                                        *)
C14_EmptyListSameAsCancel ==
    (EmptyListFetched \/ Cancelled) => NoSelectionExit

(* C14 amended: an empty candidate list and an operator cancellation both *)
(* end the run with exit status 1 before any branch is created, but with  *)
(* different reasons: the empty list is reported as a fetch failure       *)
(* (Failed to fetch VectorChord versions) and the selector is never       *)
(* shown; the cancellation is reported as No version selected, exiting.   *)
C14_EmptyListIsFetchFailure ==
    /\ EmptyListFetched =>
          /\ Failed("fetch") /\ pc = "Failed" /\ exit_code = 1
          /\ LastLine("Failed to fetch VectorChord versions")
          /\ ~Printed("Available VectorChord versions:")
          /\ prompts = 0
          /\ NoBranchMade
    /\ Cancelled => Failed("select") /\ NoSelectionExit

C14_Witness ==
    /\ EmptyListFetched /\ pc = "Failed"
    /\ response.shape = "array" /\ response.body # <<>>

(* How many git commands of the run have succeeded *)
GitDone == Cardinality({i \in 1..Len(ops) : ops[i].op \in GitOps /\ ops[i].ok})

(* The repository as k successful commands of the run for v leave it *)
RepoAfter(k, v) ==
    LET b == <<"4.0-master-vectorchord-">> \o v
        t == <<"4.0-master-vectorchord-">> \o v \o <<"-1">>
    IN  [head |-> IF k = 0 THEN <<"work">> ELSE IF k = 1 THEN <<"main">> ELSE b,
         branches |-> {<<"main">>, <<"work">>} \cup (IF k >= 2 THEN {b} ELSE {}),
         staged |-> k = 3,
         commits |-> IF k >= 4
                     THEN <<[branch |-> b, msg |-> <<"Update VectorChord to ">> \o v]>>
                     ELSE <<>>,
         tags |-> IF k >= 5 THEN {t} ELSE {},
         remote |-> (IF k >= 6 THEN {b} ELSE {}) \cup (IF k >= 7 THEN {t} ELSE {})]

(* C15: a failure after earlier successes is followed by no rollback: no  *)
(* command is issued after the failed one and none undoes an earlier one  *)
(* (the only checkout of the base branch is the first command), so the    *)
(* repository, the pushed refs and the rewritten file stay as the last    *)
(* successful step left them.                                             *)
C15_NoRollback ==
    /\ \A i \in 2..Len(git_log) :
          git_log[i].verb \in {"checkout -b", "add", "commit -m", "tag",
                               "push -u origin", "push origin"}
    /\ pc = "Failed" =>
          /\ Len(git_log) = GitDone + (IF LastOp.op \in GitOps THEN 1 ELSE 0)
          /\ repo = RepoAfter(GitDone, selected_version.val)
          /\ Len(ops) > 5 =>
                writes = 1 /\ file # file0 /\ HasPin(file, selected_version.val)

C15_Witness ==
    /\ pc = "Failed" /\ Failed("push_tag")
    /\ repo.head = branch_name
    /\ branch_name \in repo.remote /\ tag_name \notin repo.remote
    /\ tag_name \in repo.tags /\ Len(repo.commits) = 1
    /\ file # file0

(* The state select_version's loop runs in, but for the console *)
PromptFrame ==
    /\ exit_code = -1 /\ selected_version = None
    /\ ops = <<Op("checkout_base", TRUE), Op("fetch", TRUE)>>
    /\ trace = <<"Start", "BranchChecked", "ReleasesFetched">>
    /\ git_log = <<Cmd("checkout", BaseBranch)>>
    /\ repo = RepoAfter(1, <<>>)
    /\ writes = 0 /\ file = <<>> /\ file0 = <<>> /\ io = "none"
    /\ ~versions.isNone

(* C16: in the prompt loop the feedback depends only on the kind of the   *)
(* invalid input: an empty or blank line re-prompts with no message; a    *)
(* line that is no integer gives the non-numeric message and re-prompts;  *)
(* an integer outside 1..n gives the bounds message naming 1 and n and    *)
(* re-prompts; nothing but the console changes.                           *)
C16_FeedbackByKind ==
    (pc = "ReleasesFetched" /\ prompts > 0) =>
        LET c == Strip(choice.line)
            n == Len(versions.val)
            again == Msg("Select version", <<"1", ToString(n)>>)
        IN  /\ choice.kind = "line"
            /\ PromptFrame
            /\ c = <<>> => out = <<again>>
            /\ (c # <<>> /\ ~IntParse(c).ok) =>
                  out = <<Msg("Please enter a valid number", <<>>), again>>
            /\ IntParse(c).ok =>
                  /\ IntParse(c).val < 1 \/ IntParse(c).val > n
                  /\ out = <<Msg("Please enter a number between 1 and",
                                 <<ToString(n)>>), again>>

C16_Witness ==
    /\ pc = "ReleasesFetched" /\ prompts = 2
    /\ choice.line = <<" ", " ">>
    /\ out = <<PromptLine(versions.val)>>

(* C17: select_version is called only with a non-empty candidate list     *)
(* (main exits first when the list is absent or empty), so at every       *)
(* prompt some input ends the loop with a selection; on an empty list no  *)
(* input line would end the loop, only the operator's interrupt, which    *)
(* returns None.                                                          *)
C17_SelectionAlwaysPossible ==
    /\ (pc = "ReleasesFetched" \/ Len(ops) >= 3) =>
          ~versions.isNone /\ Len(versions.val) >= 1
    /\ pc = "ReleasesFetched" =>
          /\ \E l \in InputLines :
                LET it == select_iteration(versions.val, l)
                IN  it.returns /\ it.ret = Some(versions.val[1])
          /\ \A l \in InputLines : ~select_iteration(<<>>, l).returns
          /\ select_interrupted("KeyboardInterrupt").raised = ""
          /\ select_interrupted("KeyboardInterrupt").ret = None

C17_Witness ==
    /\ pc = "ReleasesFetched" /\ prompts = 1
    /\ Len(versions.val) = 1
    /\ choice.line = <<"2">>

(* C18: the build file is written at most once in a run, and only after   *)
(* a version was selected and the feature branch created and checked      *)
(* out: the file is never modified while the run is on the base branch,   *)
(* and a failed branch creation leaves it untouched.                      *)
C18_WriteOnceOnFeatureBranch ==
    /\ writes <= 1
    /\ (writes > 0 \/ file # file0 \/ io # "none") =>
          /\ Len(ops) >= 5
          /\ ops[3] = Op("select", TRUE) /\ ~selected_version.isNone
          /\ ops[4] = Op("create_branch", TRUE)
          /\ repo.head = <<"4.0-master-vectorchord-">> \o selected_version.val
          /\ repo.head # <<"main">>
    /\ Failed("create_branch") => writes = 0 /\ file = file0 /\ io = "none"

C18_Witness ==
    /\ writes = 1 /\ io = "write_error" /\ file # file0
    /\ pc = "Failed" /\ repo.head = branch_name

(* The lines of a text: what stands between its newlines *)
RECURSIVE SplitLines(_, _)
SplitLines(c, cur) ==
    IF c = <<>> THEN <<cur>>
    ELSE IF c[1] = "N" THEN <<cur>> \o SplitLines(Tail(c), <<>>)
    ELSE SplitLines(Tail(c), Append(cur, c[1]))

Lines(c) == SplitLines(c, <<>>)

(* A line matching  ARG VECTORCHORD="<anything>"  at its start *)
IsPinLine(l) ==
    /\ Len(l) >= 3 /\ l[1] = "A" /\ l[2] = "Q"
    /\ \E j \in 3..Len(l) : l[j] = "Q"

LineClose(l) == CHOOSE j \in 3..Len(l) : l[j] = "Q" /\ \A k \in 3..(j - 1) : l[k] # "Q"

PlainVersion(v) == \A k \in 1..Len(v) : v[k] \notin {"B", "Q"}

(* C19: after update_dockerfile(version) reports success (version free of *)
(* quote and backslash), the file has as many lines as before, every line *)
(* that matched the pin pattern carries the quoted value version and is   *)
(* otherwise as before, and every other line is identical to what it was. *)
C19_AllPinLinesRewritten ==
    (PinRewritten /\ ops[5].ok /\ PlainVersion(selected_version.val)) =>
        LET old == Lines(file0)
            new == Lines(file)
            v == selected_version.val
        IN  /\ Len(new) = Len(old)
            /\ \A k \in 1..Len(old) :
                  IF IsPinLine(old[k])
                  THEN new[k] = <<"A", "Q">> \o v
                                \o SubSeq(old[k], LineClose(old[k]), Len(old[k]))
                  ELSE new[k] = old[k]

====
